---- MODULE Spec2Model ----
(***************************************************************************)
(* Model of the tactus hypothesis tracking engine                          *)
(* (tactus/tactus_hypothesis_tracker.py): HypothesisTracker and            *)
(* TactusHypothesisTracker.__call__ with its generation, update, trimming  *)
(* and k-best selection steps.                                             *)
(*                                                                         *)
(* Python indices are 0-based; TLA+ sequences are 1-based, so              *)
(* onset_times[i] of the source is onset_times[i + 1] here.                *)
(* Similarities and similarity_epsilon are counted in halves: the value 2  *)
(* stands for 1.0, so "1 - similarity_epsilon" is 2 - similarity_epsilon.  *)
(***************************************************************************)
EXTENDS Integers, Sequences, FiniteSets

VARIABLES
    onset_times,          \* the argument of __call__
    cfg,                  \* the configuration given to __init__
    discovered_index,     \* the cursor of ongoing_play
    hypothesis_trackers,  \* the population (line 95)
    n_hts,                \* trackers generated in this step (line 97)
    upd_i,                \* position of the "for h in hypothesis_trackers" loop
    kept_hs,              \* line 133
    trimmed_hs_data,      \* line 132: pairs <<n_ht, ht>>
    remaining_hts,        \* line 134
    n_remaining_hts,      \* line 137
    ht,                   \* line 136: the current representative (<<>> if none)
    sim_calls,            \* the calls of sim_f made in this step: [a, b, s]
    eval_seen,            \* cur of the tracker eval_f was last called on in
                          \* the update loop under way (<<>> if none)
    other_hs,             \* line 108
    removed,              \* names of the trackers dropped so far in the run
    result,               \* the returned mapping (line 113)
    fault,                \* which supplied function faulted, "none" if none
    pc                    \* position in __call__

vars == <<onset_times, cfg, discovered_index, hypothesis_trackers, n_hts,
          upd_i, kept_hs, trimmed_hs_data, remaining_hts, n_remaining_hts,
          ht, sim_calls, eval_seen, other_hs, removed, result, fault, pc>>

----------------------------------------------------------------------------
(* Bounds and input domains *)

MaxOnsets == 5

\* Onset timestamps in ms: a grid of 500 ms.
Times == {500 * i : i \in 0 .. (MaxOnsets - 1)}

\* The strictly increasing sequence of the elements of S.
RECURSIVE Ascending(_)
Ascending(S) ==
    IF S = {} THEN <<>>
    ELSE LET m == CHOOSE x \in S : \A y \in S : y <= x
         IN  Append(Ascending(S \ {m}), m)

OnsetSeqs == {Ascending(S) : S \in SUBSET Times}

\* Configurations (similarity_epsilon in halves: 1 is 0.5, 2 is 1.0).
\* corr_f names the correction function (see CorrF).
Configs ==
    { [similarity_epsilon |-> 1, min_delta |-> 400, max_delta |-> 600,
       max_hypotheses |-> 10, corr_f |-> "rephase"],
      [similarity_epsilon |-> 2, min_delta |-> 500, max_delta |-> 600,
       max_hypotheses |-> 2, corr_f |-> "stretch"],
      [similarity_epsilon |-> 1, min_delta |-> 400, max_delta |-> 1000,
       max_hypotheses |-> 1, corr_f |-> "rephase"],
      [similarity_epsilon |-> 1, min_delta |-> 0, max_delta |-> 1000,
       max_hypotheses |-> 0, corr_f |-> "keep"],
      [similarity_epsilon |-> 1, min_delta |-> 600, max_delta |-> 400,
       max_hypotheses |-> 2, corr_f |-> "keep"] }

\* Values the supplied functions may return.
ConfVals == {1, 2}
SimVals == {0, 1, 2}

----------------------------------------------------------------------------
(* Helpers *)

Min(a, b) == IF a <= b THEN a ELSE b
Max(a, b) == IF a >= b THEN a ELSE b

Range(s) == {s[i] : i \in 1 .. Len(s)}

\* Python's s[:n]
SliceTo(s, n) ==
    LET e == IF n >= 0 THEN Min(n, Len(s)) ELSE Max(Len(s) + n, 0)
    IN  SubSeq(s, 1, e)

Names(hts) == {hts[i].name : i \in 1 .. Len(hts)}

----------------------------------------------------------------------------
(* playback.OngoingPlayback *)

\* advance(): true iff one more onset can be revealed.
CanAdvance == discovered_index + 1 < Len(onset_times)

----------------------------------------------------------------------------
(* HypothesisTracker *)

\* hypothesis.HypothesisFromIndex.__init__: name and first hypothesis
\* (rho, delta) from two onset indexes.
HypothesisFromIndex(start_idx, end_idx, onsets) ==
    [name   |-> <<start_idx, end_idx>>,
     htuple |-> <<onsets[start_idx + 1],
                  onsets[end_idx + 1] - onsets[start_idx + 1]>>]

\* HypothesisTracker.__init__
HypothesisTracker(start_idx, end_idx, onsets) ==
    LET base == HypothesisFromIndex(start_idx, end_idx, onsets)
    IN  [name   |-> base.name,
         htuple |-> base.htuple,
         beta   |-> base.htuple,
         corr   |-> <<>>,
         confs  |-> <<>>]

\* Lines 44-45 of update: the correction is recorded and becomes current.
ApplyCorrection(h, di, correction) ==
    [h EXCEPT !.corr = Append(@, <<di, correction>>),
              !.htuple = correction.new_hypothesis]

\* RecordConf with the confidence overwriting the history instead of
\* being appended to it.
RecordConf_overwrite(h, di, n_conf) ==
    [h EXCEPT !.confs = <<(<<di, n_conf>>)>>]

\* Line 47 of update: the confidence is recorded.
RecordConf(h, di, n_conf) ==
    [h EXCEPT !.confs = Append(@, <<di, n_conf>>)]

\* update with eval_f called on the tracker as it was before the correction.
SelfAtEval_early(h, di, correction) == h

\* Lines 43-46 of update: the tracker eval_f is called on.
SelfAtEval(h, di, correction) == ApplyCorrection(h, di, correction)

\* UpdateLoopDone leaving the loop one tracker early.
UpdateLoopDone_early(i, hts) == i >= Len(hts)

\* Line 102: the loop "for h in hypothesis_trackers" is exhausted
\* (i is the 1-based position of the next tracker).
UpdateLoopDone(i, hts) == i > Len(hts)

\* The property conf: the latest confidence.
Conf(h) == h.confs[Len(h.confs)][2]

\* The property cur.
Cur(h) == h.htuple

\* The correction functions of the model: "keep" proposes the current
\* hypothesis again, "rephase" moves its phase to the onset just discovered,
\* "stretch" also adds the distance to that onset to its period.
CorrF(c, h, di, onsets) ==
    IF c.corr_f = "keep" THEN [new_hypothesis |-> h.htuple]
    ELSE IF c.corr_f = "rephase"
      THEN [new_hypothesis |-> <<onsets[di + 1], h.htuple[2]>>]
    ELSE [new_hypothesis |-> <<onsets[di + 1],
                               h.htuple[2] + (onsets[di + 1] - h.htuple[1])>>]

----------------------------------------------------------------------------
(* TactusHypothesisTracker._generate_new_hypothesis *)

\* GenEndIndex taking the onset just discovered as the end index.
GenEndIndex_last(di) == di

\* Line 117
GenEndIndex(di) == di - 1

\* InDeltaRange with both bounds exclusive.
InDeltaRange_strict(c, delta) == c.min_delta < delta /\ delta < c.max_delta

\* Line 121
InDeltaRange(c, delta) == c.min_delta <= delta /\ delta <= c.max_delta

\* xrange(end_index)
XRange(n) == [i \in 1 .. Max(n, 0) |-> i - 1]

\* GenerateNewHypothesis taking the onset just discovered as the end index
\* and pairing it with every onset up to itself.
GenerateNewHypothesis_selfpair(di, onsets, c) ==
    LET end_index == di
        ks == SelectSeq(XRange(end_index + 1),
                        LAMBDA k : InDeltaRange(c,
                                     onsets[end_index + 1] - onsets[k + 1]))
    IN  [i \in 1 .. Len(ks) |-> HypothesisTracker(ks[i], end_index, onsets)]

\* GenerateNewHypothesis with the two indexes given to the constructor in
\* the wrong order.
GenerateNewHypothesis_swapped(di, onsets, c) ==
    LET end_index == GenEndIndex(di)
        ks == SelectSeq(XRange(end_index),
                        LAMBDA k : InDeltaRange(c,
                                     onsets[end_index + 1] - onsets[k + 1]))
    IN  [i \in 1 .. Len(ks) |-> HypothesisTracker(end_index, ks[i], onsets)]

\* GenerateNewHypothesis giving every tracker of the step the first accepted
\* start index.
GenerateNewHypothesis_firstk(di, onsets, c) ==
    LET end_index == GenEndIndex(di)
        ks == SelectSeq(XRange(end_index),
                        LAMBDA k : InDeltaRange(c,
                                     onsets[end_index + 1] - onsets[k + 1]))
    IN  [i \in 1 .. Len(ks) |-> HypothesisTracker(ks[1], end_index, onsets)]

GenerateNewHypothesis(di, onsets, c) ==
    LET end_index == GenEndIndex(di)
        ks == SelectSeq(XRange(end_index),
                        LAMBDA k : InDeltaRange(c,
                                     onsets[end_index + 1] - onsets[k + 1]))
    IN  [i \in 1 .. Len(ks) |-> HypothesisTracker(ks[i], end_index, onsets)]

----------------------------------------------------------------------------
(* TactusHypothesisTracker._trim_similar_hypotheses *)

\* ExceedsThreshold with a similarity equal to the threshold trimming too.
ExceedsThreshold_geq(s, c) == s >= (2 - c.similarity_epsilon)

\* ExceedsThreshold with the comparison inverted.
ExceedsThreshold_inverted(s, c) == s < (2 - c.similarity_epsilon)

\* Line 142: s > (1 - self.similarity_epsilon), in halves.
ExceedsThreshold(s, c) == s > (2 - c.similarity_epsilon)

\* TrimmedRecord with the representative and the trimmed tracker exchanged.
TrimmedRecord_swapped(n_ht, rep) == <<rep, n_ht>>

\* Line 143: the record of a trimmed tracker and its representative.
TrimmedRecord(n_ht, rep) == <<n_ht, rep>>

----------------------------------------------------------------------------
(* TactusHypothesisTracker._split_k_best_hypotheses *)

\* HtsInfo without the negation of the confidence: the sort is ascending.
HtsInfo_ascending(hts) == [i \in 1 .. Len(hts) |-> <<Conf(hts[i]), i - 1>>]

\* Line 156: [(-1 * ht.conf, idx) for idx, ht in enumerate(hts)]
HtsInfo(hts) == [i \in 1 .. Len(hts) |-> <<(-1) * Conf(hts[i]), i - 1>>]

\* PairLess with ties on the first component going to the larger second.
PairLess_latestfirst(x, y) == x[1] < y[1] \/ (x[1] = y[1] /\ x[2] > y[2])

\* Python's order on pairs.
PairLess(x, y) == x[1] < y[1] \/ (x[1] = y[1] /\ x[2] < y[2])

RECURSIVE InsertSorted(_, _)
InsertSorted(x, s) ==
    IF s = <<>> THEN <<x>>
    ELSE IF PairLess(x, Head(s)) THEN <<x>> \o s
    ELSE <<Head(s)>> \o InsertSorted(x, Tail(s))

\* sorted(hts_info)
RECURSIVE Sorted(_)
Sorted(s) ==
    IF s = <<>> THEN <<>>
    ELSE InsertSorted(Head(s), Sorted(Tail(s)))

IdxSeq(hts) == [i \in 1 .. Len(hts) |-> i - 1]

\* BestHtsIdx with the slice one too long.
BestHtsIdx_offbyone(hts, c) ==
    {p[2] : p \in Range(SliceTo(Sorted(HtsInfo(hts)), c.max_hypotheses + 1))}

\* Lines 158-159
BestHtsIdx(hts, c) ==
    {p[2] : p \in Range(SliceTo(Sorted(HtsInfo(hts)), c.max_hypotheses))}

\* BestKHts returning the best trackers in the order of the sort.
BestKHts_sortedorder(hts, c) ==
    LET best == SliceTo(Sorted(HtsInfo(hts)), c.max_hypotheses)
    IN  [j \in 1 .. Len(best) |-> hts[best[j][2] + 1]]

\* Lines 160-161
BestKHts(hts, c) ==
    LET idxs == SelectSeq(IdxSeq(hts), LAMBDA i : i \in BestHtsIdx(hts, c))
    IN  [j \in 1 .. Len(idxs) |-> hts[idxs[j] + 1]]

\* Lines 162-163
OtherHts(hts, c) ==
    LET idxs == SelectSeq(IdxSeq(hts), LAMBDA i : i \notin BestHtsIdx(hts, c))
    IN  [j \in 1 .. Len(idxs) |-> hts[idxs[j] + 1]]

\* NextPopulation with the other trackers kept behind the k best.
NextPopulation_keepall(k_best_hs, others) == k_best_hs \o others

\* Line 109: the population carried to the next step.
NextPopulation(k_best_hs, others) == k_best_hs

\* Line 113
ReturnedMapping(hts) ==
    [n \in Names(hts) |->
        LET i == CHOOSE j \in 1 .. Len(hts) :
                   hts[j].name = n /\ \A l \in (j + 1) .. Len(hts) : hts[l].name # n
        IN  hts[i]]

----------------------------------------------------------------------------
(* The run: TactusHypothesisTracker.__call__ *)

Init ==
    /\ onset_times \in OnsetSeqs
    /\ cfg \in Configs
    /\ discovered_index = -1
    /\ hypothesis_trackers = <<>>
    /\ n_hts = <<>>
    /\ upd_i = 0
    /\ kept_hs = <<>>
    /\ trimmed_hs_data = <<>>
    /\ remaining_hts = <<>>
    /\ n_remaining_hts = <<>>
    /\ ht = <<>>
    /\ sim_calls = {}
    /\ eval_seen = <<>>
    /\ other_hs = <<>>
    /\ removed = {}
    /\ result = <<>>
    /\ fault = "none"
    /\ pc = "advance"

\* Line 96, advance() succeeds: a new step starts.
Advance ==
    /\ pc = "advance"
    /\ CanAdvance
    /\ discovered_index' = discovered_index + 1
    /\ n_hts' = <<>>
    /\ kept_hs' = <<>>
    /\ trimmed_hs_data' = <<>>
    /\ other_hs' = <<>>
    /\ sim_calls' = {}
    /\ pc' = "generate"
    /\ UNCHANGED <<eval_seen, onset_times, cfg, hypothesis_trackers, upd_i,
                   remaining_hts, n_remaining_hts, ht, removed, result, fault>>

\* Line 96, advance() fails, and line 113.
Return ==
    /\ pc = "advance"
    /\ ~CanAdvance
    /\ result' = ReturnedMapping(hypothesis_trackers)
    /\ pc' = "done"
    /\ UNCHANGED <<eval_seen, onset_times, cfg, discovered_index, hypothesis_trackers,
                   n_hts, upd_i, kept_hs, trimmed_hs_data, remaining_hts,
                   n_remaining_hts, ht, sim_calls, other_hs, removed, fault>>

\* Lines 97-100
Generate ==
    /\ pc = "generate"
    /\ n_hts' = GenerateNewHypothesis(discovered_index, onset_times, cfg)
    /\ hypothesis_trackers' = hypothesis_trackers \o n_hts'
    /\ upd_i' = 1
    /\ pc' = "update"
    /\ UNCHANGED <<eval_seen, onset_times, cfg, discovered_index, kept_hs,
                   trimmed_hs_data, remaining_hts, n_remaining_hts, ht,
                   sim_calls, other_hs, removed, result, fault>>

\* Lines 102-103, one iteration: h.update(...) returns.
Update ==
    /\ pc = "update"
    /\ ~UpdateLoopDone(upd_i, hypothesis_trackers)
    /\ \E n_conf \in ConfVals :
         LET correction == CorrF(cfg, hypothesis_trackers[upd_i],
                                 discovered_index, onset_times)
         IN
         /\ eval_seen' = Cur(SelfAtEval(hypothesis_trackers[upd_i],
                                        discovered_index, correction))
         /\ hypothesis_trackers' =
              [hypothesis_trackers EXCEPT ![upd_i] =
                 RecordConf(ApplyCorrection(@, discovered_index, correction),
                            discovered_index, n_conf)]
    /\ upd_i' = upd_i + 1
    /\ UNCHANGED <<onset_times, cfg, discovered_index, n_hts, kept_hs,
                   trimmed_hs_data, remaining_hts, n_remaining_hts, ht,
                   sim_calls, other_hs, removed, result, fault, pc>>

\* Line 43: corr_f faults; the fault leaves __call__.
UpdateCorrFault ==
    /\ pc = "update"
    /\ ~UpdateLoopDone(upd_i, hypothesis_trackers)
    /\ fault' = "corr_f"
    /\ pc' = "faulted"
    /\ UNCHANGED <<eval_seen, onset_times, cfg, discovered_index, hypothesis_trackers,
                   n_hts, upd_i, kept_hs, trimmed_hs_data, remaining_hts,
                   n_remaining_hts, ht, sim_calls, other_hs, removed, result>>

\* UpdateEvalFault with the tracker restored to what it was before the call.
UpdateEvalFault_rollback ==
    /\ pc = "update"
    /\ ~UpdateLoopDone(upd_i, hypothesis_trackers)
    /\ LET correction == CorrF(cfg, hypothesis_trackers[upd_i],
                               discovered_index, onset_times)
       IN
         /\ eval_seen' = Cur(SelfAtEval(hypothesis_trackers[upd_i],
                                        discovered_index, correction))
         /\ hypothesis_trackers' = hypothesis_trackers
    /\ fault' = "eval_f"
    /\ pc' = "faulted"
    /\ UNCHANGED <<onset_times, cfg, discovered_index, n_hts, upd_i, kept_hs,
                   trimmed_hs_data, remaining_hts, n_remaining_hts, ht,
                   sim_calls, other_hs, removed, result>>

\* Line 46: eval_f faults after lines 43-45 ran; the fault leaves __call__.
UpdateEvalFault ==
    /\ pc = "update"
    /\ ~UpdateLoopDone(upd_i, hypothesis_trackers)
    /\ LET correction == CorrF(cfg, hypothesis_trackers[upd_i],
                               discovered_index, onset_times)
       IN
         /\ eval_seen' = Cur(SelfAtEval(hypothesis_trackers[upd_i],
                                        discovered_index, correction))
         /\ hypothesis_trackers' =
              [hypothesis_trackers EXCEPT ![upd_i] =
                 ApplyCorrection(@, discovered_index, correction)]
    /\ fault' = "eval_f"
    /\ pc' = "faulted"
    /\ UNCHANGED <<onset_times, cfg, discovered_index, n_hts, upd_i, kept_hs,
                   trimmed_hs_data, remaining_hts, n_remaining_hts, ht,
                   sim_calls, other_hs, removed, result>>

\* Lines 105 and 132-134: the update loop is over, trimming starts.
TrimStart ==
    /\ pc = "update"
    /\ UpdateLoopDone(upd_i, hypothesis_trackers)
    /\ trimmed_hs_data' = <<>>
    /\ kept_hs' = <<>>
    /\ remaining_hts' = hypothesis_trackers
    /\ n_remaining_hts' = <<>>
    /\ ht' = <<>>
    /\ eval_seen' = <<>>
    /\ pc' = "trim_outer"
    /\ UNCHANGED <<onset_times, cfg, discovered_index, hypothesis_trackers,
                   n_hts, upd_i, sim_calls, other_hs, removed, result, fault>>

\* TrimTake reading the next representative without taking it out of the
\* remaining trackers.
TrimTake_peek ==
    /\ pc = "trim_outer"
    /\ remaining_hts # <<>>
    /\ ht' = Head(remaining_hts)
    /\ remaining_hts' = remaining_hts
    /\ n_remaining_hts' = <<>>
    /\ kept_hs' = Append(kept_hs, Head(remaining_hts))
    /\ pc' = "trim_inner"
    /\ UNCHANGED <<eval_seen, onset_times, cfg, discovered_index,
                   hypothesis_trackers, n_hts, upd_i, trimmed_hs_data,
                   sim_calls, other_hs, removed, result, fault>>

\* Lines 135-138: the next representative is taken and kept.
TrimTake ==
    /\ pc = "trim_outer"
    /\ remaining_hts # <<>>
    /\ ht' = Head(remaining_hts)
    /\ remaining_hts' = Tail(remaining_hts)
    /\ n_remaining_hts' = <<>>
    /\ kept_hs' = Append(kept_hs, Head(remaining_hts))
    /\ pc' = "trim_inner"
    /\ UNCHANGED <<eval_seen, onset_times, cfg, discovered_index, hypothesis_trackers,
                   n_hts, upd_i, trimmed_hs_data, sim_calls, other_hs,
                   removed, result, fault>>

\* Lines 139-145: one comparison against the representative.
TrimCompare ==
    /\ pc = "trim_inner"
    /\ remaining_hts # <<>>
    /\ \E s \in SimVals :
         LET n_ht == Head(remaining_hts)
         IN  /\ sim_calls' = sim_calls \cup
                               {[a |-> ht.name, b |-> n_ht.name, s |-> s]}
             /\ IF ExceedsThreshold(s, cfg)
                  THEN /\ trimmed_hs_data' = Append(trimmed_hs_data,
                                                  TrimmedRecord(n_ht, ht))
                       /\ n_remaining_hts' = n_remaining_hts
                  ELSE /\ n_remaining_hts' = Append(n_remaining_hts, n_ht)
                       /\ trimmed_hs_data' = trimmed_hs_data
    /\ remaining_hts' = Tail(remaining_hts)
    /\ UNCHANGED <<eval_seen, onset_times, cfg, discovered_index, hypothesis_trackers,
                   n_hts, upd_i, kept_hs, ht, other_hs, removed, result,
                   fault, pc>>

\* TrimNext keeping every tracker that passed the representative without
\* comparing it against later representatives.
TrimNext_keeprest ==
    /\ pc = "trim_inner"
    /\ remaining_hts = <<>>
    /\ kept_hs' = kept_hs \o n_remaining_hts
    /\ remaining_hts' = <<>>
    /\ n_remaining_hts' = <<>>
    /\ pc' = "trim_outer"
    /\ UNCHANGED <<eval_seen, onset_times, cfg, discovered_index,
                   hypothesis_trackers, n_hts, upd_i, trimmed_hs_data, ht,
                   sim_calls, other_hs, removed, result, fault>>

\* Line 147: the inner loop is over.
TrimNext ==
    /\ pc = "trim_inner"
    /\ remaining_hts = <<>>
    /\ remaining_hts' = n_remaining_hts
    /\ n_remaining_hts' = <<>>
    /\ pc' = "trim_outer"
    /\ UNCHANGED <<eval_seen, onset_times, cfg, discovered_index, hypothesis_trackers,
                   n_hts, upd_i, kept_hs, trimmed_hs_data, ht, sim_calls,
                   other_hs, removed, result, fault>>

\* Lines 149 and 108-109: trimming returns, the k best are selected and
\* become the population.
Select ==
    /\ pc = "trim_outer"
    /\ remaining_hts = <<>>
    /\ LET k_best_hs == BestKHts(kept_hs, cfg)
           others == OtherHts(kept_hs, cfg)
       IN  /\ other_hs' = others
           /\ hypothesis_trackers' = NextPopulation(k_best_hs, others)
           /\ removed' = removed \cup
                 {trimmed_hs_data[i][1].name : i \in 1 .. Len(trimmed_hs_data)}
                 \cup Names(others)
    /\ ht' = <<>>
    /\ pc' = "advance"
    /\ UNCHANGED <<eval_seen, onset_times, cfg, discovered_index, n_hts, upd_i, kept_hs,
                   trimmed_hs_data, remaining_hts, n_remaining_hts, sim_calls,
                   result, fault>>

Next ==
    \/ Advance
    \/ Return
    \/ Generate
    \/ Update
    \/ UpdateCorrFault
    \/ UpdateEvalFault
    \/ TrimStart
    \/ TrimTake
    \/ TrimCompare
    \/ TrimNext
    \/ Select

Spec == Init /\ [][Next]_vars

\* The run is sequential code: it goes on as long as a statement is left to
\* execute (the supplied functions return or fault).
FairSpec == Spec /\ WF_vars(Next)

----------------------------------------------------------------------------
(* Properties *)

\* A step of the run has ended (selection has run at least once) and the
\* next one has not started.
StepBoundary == pc = "advance" /\ discovered_index >= 0

\* Trimming of the current step has returned.
TrimmingDone ==
    \/ pc = "trim_outer" /\ remaining_hts = <<>>
    \/ StepBoundary

IsOnsetIndex(i) == i \in 0 .. (Len(onset_times) - 1)

\* C1: every key of the returned mapping is a pair (k, end_index) of onset
\* indices with 0 <= k < end_index, and the tracker stored under the key has
\* that pair as its origin.
C1_KeysAreOrigins ==
    pc = "done" =>
      \A key \in DOMAIN result :
        /\ Len(key) = 2
        /\ IsOnsetIndex(key[1]) /\ IsOnsetIndex(key[2])
        /\ 0 <= key[1] /\ key[1] < key[2]
        /\ result[key].name = key

C1_Witness ==
    /\ pc = "done"
    /\ Cardinality(DOMAIN result) >= 2

\* C2: after selection the population has exactly
\* min(max_hypotheses, number of trackers kept by trimming) trackers, so it
\* never exceeds max_hypotheses; with max_hypotheses = 0 it is empty after
\* the first selection and the returned mapping is empty.
C2_SelectionSize ==
    /\ StepBoundary =>
         /\ Len(hypothesis_trackers) = Min(cfg.max_hypotheses, Len(kept_hs))
         /\ Len(hypothesis_trackers) <= cfg.max_hypotheses
         /\ cfg.max_hypotheses = 0 => hypothesis_trackers = <<>>
    /\ (pc = "done" /\ cfg.max_hypotheses = 0) => DOMAIN result = {}

C2_Witness ==
    /\ StepBoundary
    /\ cfg.max_hypotheses > 0
    /\ Len(kept_hs) > cfg.max_hypotheses
    /\ Len(hypothesis_trackers) = cfg.max_hypotheses

\* C3: after selection, every retained tracker has a latest confidence at
\* least that of every tracker dropped by the same selection.
C3_RetainedNotWorse ==
    StepBoundary =>
      \A i \in 1 .. Len(hypothesis_trackers), j \in 1 .. Len(other_hs) :
        Conf(hypothesis_trackers[i]) >= Conf(other_hs[j])

C3_Witness ==
    /\ StepBoundary
    /\ \E i \in 1 .. Len(hypothesis_trackers), j \in 1 .. Len(other_hs) :
         /\ Conf(hypothesis_trackers[i]) > Conf(other_hs[j])
         /\ \E l \in 1 .. Len(kept_hs) :
              /\ kept_hs[l].name = other_hs[j].name
              /\ \E m \in (l + 1) .. Len(kept_hs) :
                   kept_hs[m].name = hypothesis_trackers[i].name

\* The value sim_f returned in this step for the pair (a, b), as a set (one
\* value when the pair was compared, none otherwise).
SimOf(a, b) == {c.s : c \in {x \in sim_calls : x.a = a.name /\ x.b = b.name}}

\* C4: once trimming has returned, any two kept trackers a before b were
\* compared in this step and sim_f(a, b, state) <= 1 - similarity_epsilon.
C4_KeptPairsDissimilar ==
    TrimmingDone =>
      \A i \in 1 .. Len(kept_hs), j \in 1 .. Len(kept_hs) :
        i < j =>
          /\ SimOf(kept_hs[i], kept_hs[j]) # {}
          /\ \A s \in SimOf(kept_hs[i], kept_hs[j]) :
               s <= 2 - cfg.similarity_epsilon

C4_Witness ==
    /\ pc = "trim_outer" /\ remaining_hts = <<>>
    /\ Len(kept_hs) >= 3
    /\ \E c \in sim_calls : c.s = 2 - cfg.similarity_epsilon

DiscoveredIndexesIncrease(history) ==
    \A i \in 1 .. Len(history), j \in 1 .. Len(history) :
      i < j => history[i][1] < history[j][1]

\* C5: at every step boundary, each tracker of the population has a
\* correction history and a confidence history of the same length, and the
\* discovered indexes recorded in each are strictly increasing.
C5_HistoriesInLockstep ==
    (pc = "advance" \/ pc = "done") =>
      \A i \in 1 .. Len(hypothesis_trackers) :
        LET h == hypothesis_trackers[i]
        IN  /\ Len(h.corr) = Len(h.confs)
            /\ DiscoveredIndexesIncrease(h.corr)
            /\ DiscoveredIndexesIncrease(h.confs)
            /\ \A l \in 1 .. Len(h.corr) : h.corr[l][1] = h.confs[l][1]

C5_Witness ==
    /\ pc = "advance"
    /\ \E i \in 1 .. Len(hypothesis_trackers) :
         Len(hypothesis_trackers[i].confs) >= 3

\* Names of the trackers generated so far in the run: each is still in the
\* population or has been dropped from it.
GeneratedSoFar == Names(hypothesis_trackers) \cup removed

\* C6: a tracker removed from the population (trimmed, or dropped by
\* selection) is in no later population and not in the returned mapping.
C6_RemovedIsAbsorbing ==
    /\ removed \cap Names(hypothesis_trackers) = {}
    /\ pc = "done" => removed \cap DOMAIN result = {}

C6_Witness ==
    /\ pc = "update"
    /\ upd_i > Len(hypothesis_trackers)
    /\ cfg.max_hypotheses > 0
    /\ removed # {}
    /\ Len(hypothesis_trackers) >= 2

\* The run of the scenario: onsets [0, 500, 1000], min_delta = 400,
\* max_delta = 600, max_hypotheses = 10, every similarity 0 and every
\* confidence 1.
Scenario ==
    /\ onset_times = <<0, 500, 1000>>
    /\ cfg.min_delta = 400 /\ cfg.max_delta = 600
    /\ cfg.max_hypotheses = 10
    /\ \A c \in sim_calls : c.s = 0
    /\ \A i \in 1 .. Len(hypothesis_trackers) :
         \A l \in 1 .. Len(hypothesis_trackers[i].confs) :
           hypothesis_trackers[i].confs[l][2] = 1

\* C7 as stated: in the scenario the returned mapping contains the origins
\* (0,1) and (1,2), and (0,2) is never generated.
C7_Original ==
    Scenario =>
      /\ <<0, 2>> \notin GeneratedSoFar
      /\ pc = "done" => {<<0, 1>>, <<1, 2>>} \subseteq DOMAIN result

\* C7 as amended: in the scenario the returned mapping contains exactly the
\* origin (0,1); neither (1,2) nor (0,2) is ever generated, the end index
\* being one less than the discovered index.
C7_ScenarioResult ==
    Scenario =>
      /\ <<0, 2>> \notin GeneratedSoFar
      /\ <<1, 2>> \notin GeneratedSoFar
      /\ pc = "done" => DOMAIN result = {<<0, 1>>}

C7_Witness ==
    /\ Scenario
    /\ pc = "done"
    /\ <<0, 1>> \in DOMAIN result
    /\ Conf(result[<<0, 1>>]) = 1

\* C9: a run on fewer than two onsets creates no tracker, calls none of the
\* supplied functions, does not fault and returns an empty mapping.
C9_ShortRunsAreEmpty ==
    Len(onset_times) < 2 =>
      /\ hypothesis_trackers = <<>>
      /\ n_hts = <<>>
      /\ removed = {}
      /\ sim_calls = {}
      /\ fault = "none" /\ pc # "faulted"
      /\ pc = "done" => DOMAIN result = {}

C9_Witness ==
    /\ Len(onset_times) = 1
    /\ discovered_index = 0
    /\ pc = "done"
    /\ DOMAIN result = {}

\* Position of the tracker named n in the population of this step.
PositionOf(n) ==
    CHOOSE i \in 1 .. Len(hypothesis_trackers) : hypothesis_trackers[i].name = n

\* C10 as stated: a trimmed tracker's representative has a latest
\* confidence at least that of the trimmed tracker.
C10_Original ==
    pc \in {"trim_outer", "trim_inner"} =>
      \A i \in 1 .. Len(trimmed_hs_data) :
        Conf(trimmed_hs_data[i][2]) >= Conf(trimmed_hs_data[i][1])

\* C10 as amended: a trimmed tracker's representative is a kept tracker
\* that precedes it in population order and whose similarity to it exceeded
\* 1 - similarity_epsilon; its confidence may be the lower one.
C10_TrimmedAgainstEarlierKept ==
    pc \in {"trim_outer", "trim_inner"} =>
      \A i \in 1 .. Len(trimmed_hs_data) :
        LET t == trimmed_hs_data[i][1]
            r == trimmed_hs_data[i][2]
        IN  /\ r \in Range(kept_hs)
            /\ t \notin Range(kept_hs)
            /\ t \in Range(hypothesis_trackers)
            /\ PositionOf(r.name) < PositionOf(t.name)
            /\ SimOf(r, t) # {}
            /\ \A s \in SimOf(r, t) : s > 2 - cfg.similarity_epsilon

C10_Witness ==
    /\ pc = "trim_outer" /\ remaining_hts = <<>>
    /\ \E i \in 1 .. Len(trimmed_hs_data) :
         Conf(trimmed_hs_data[i][2]) < Conf(trimmed_hs_data[i][1])

\* The origins the generation of the current step has to create.
ExpectedOrigins ==
    LET end_index == discovered_index - 1
    IN  {<<k, end_index>> : k \in
           {j \in 0 .. (end_index - 1) :
              /\ cfg.min_delta <= onset_times[end_index + 1] - onset_times[j + 1]
              /\ onset_times[end_index + 1] - onset_times[j + 1] <= cfg.max_delta}}

\* C11: the trackers created by the generation of a step are exactly those
\* with origin (k, end_index), end_index = discovered_index - 1,
\* 0 <= k < end_index and min_delta <= onset_times[end_index] -
\* onset_times[k] <= max_delta, in increasing k; none is ever created when
\* min_delta > max_delta.
C11_GeneratedExactly ==
    /\ pc # "generate" =>
         /\ Names(n_hts) = ExpectedOrigins
         /\ Len(n_hts) = Cardinality(ExpectedOrigins)
         /\ \A i \in 1 .. Len(n_hts), j \in 1 .. Len(n_hts) :
              i < j => n_hts[i].name[1] < n_hts[j].name[1]
    /\ cfg.min_delta > cfg.max_delta =>
         n_hts = <<>> /\ GeneratedSoFar = {}

C11_Witness ==
    /\ pc = "update"
    /\ Len(n_hts) = 2
    /\ discovered_index = 4
    /\ n_hts[1].beta[2] = cfg.max_delta
    /\ n_hts[2].beta[2] > cfg.min_delta

Last(history) == history[Len(history)]

\* cur is the new hypothesis of the latest correction, or beta if there is
\* none.
CurIsLatestCorrection(h) ==
    Cur(h) = IF h.corr = <<>> THEN h.beta
             ELSE Last(h.corr)[2].new_hypothesis

\* One call of update returns: the step of the update loop over the tracker
\* at position upd_i.
UpdateReturns == pc = "update" /\ pc' = "update" /\ upd_i' = upd_i + 1

\* C12: a call of update appends exactly one entry to each history, both
\* tagged with the discovered index, and eval_f is called on the tracker
\* whose cur is already the new hypothesis of the correction just recorded;
\* at any time cur is the new hypothesis of the latest correction, or beta
\* when there is none.
C12_UpdateRecordsOnce ==
    /\ [](\A i \in 1 .. Len(hypothesis_trackers) :
            CurIsLatestCorrection(hypothesis_trackers[i]))
    /\ [][UpdateReturns =>
            LET h == hypothesis_trackers[upd_i]
                g == hypothesis_trackers'[upd_i]
            IN  /\ Len(g.corr) = Len(h.corr) + 1
                /\ Len(g.confs) = Len(h.confs) + 1
                /\ SubSeq(g.corr, 1, Len(h.corr)) = h.corr
                /\ SubSeq(g.confs, 1, Len(h.confs)) = h.confs
                /\ Last(g.corr)[1] = discovered_index
                /\ Last(g.confs)[1] = discovered_index
                /\ Cur(g) = Last(g.corr)[2].new_hypothesis
                /\ eval_seen' = Last(g.corr)[2].new_hypothesis
                /\ g.name = h.name /\ g.beta = h.beta
                /\ \A j \in 1 .. Len(hypothesis_trackers) :
                     j # upd_i => hypothesis_trackers'[j] = hypothesis_trackers[j]
       ]_vars

C12_Witness ==
    /\ pc = "update"
    /\ upd_i > 1
    /\ LET h == hypothesis_trackers[upd_i - 1]
       IN  /\ Len(h.corr) >= 2
           /\ Cur(h) # h.beta
           /\ Last(h.corr)[2].new_hypothesis # h.corr[1][2].new_hypothesis
           /\ eval_seen = Cur(h)

\* The step in which the tracker h was created.
CreationStep(h) == h.name[2] + 1

\* h has been updated once in every step from its creation to step t.
UpdatedInEveryStepTo(h, t) ==
    /\ Len(h.confs) = t - CreationStep(h) + 1
    /\ Len(h.corr) = t - CreationStep(h) + 1
    /\ \A l \in 1 .. Len(h.confs) :
         /\ h.confs[l][1] = CreationStep(h) + l - 1
         /\ h.corr[l][1] = CreationStep(h) + l - 1

\* C13: in every step each tracker of the population after generation is
\* updated exactly once, all before trimming and selection start; so when
\* trimming and selection run, every tracker has a non-empty confidence
\* history ending with this step's discovered index, and a tracker alive
\* from step s to step t has t - s + 1 entries in each history.
C13_UpdatedOncePerStep ==
    /\ pc = "update" =>
         \A i \in 1 .. Len(hypothesis_trackers) :
           UpdatedInEveryStepTo(hypothesis_trackers[i],
                                IF i < upd_i THEN discovered_index
                                ELSE discovered_index - 1)
    /\ pc \in {"trim_outer", "trim_inner"} \/ StepBoundary =>
         /\ \A i \in 1 .. Len(hypothesis_trackers) :
              UpdatedInEveryStepTo(hypothesis_trackers[i], discovered_index)
         /\ \A i \in 1 .. Len(kept_hs) :
              /\ kept_hs[i].confs # <<>>
              /\ Last(kept_hs[i].confs)[1] = discovered_index
              /\ UpdatedInEveryStepTo(kept_hs[i], discovered_index)

C13_Witness ==
    /\ pc = "trim_outer" /\ remaining_hts = <<>>
    /\ \E i \in 1 .. Len(kept_hs), j \in 1 .. Len(kept_hs) :
         /\ Len(kept_hs[i].confs) = 3
         /\ Len(kept_hs[j].confs) = 1

\* Generation order: by end index, then by start index.
OriginBefore(a, b) ==
    a.name[2] < b.name[2] \/ (a.name[2] = b.name[2] /\ a.name[1] < b.name[1])

InGenerationOrder(hts) ==
    \A i \in 1 .. Len(hts), j \in 1 .. Len(hts) :
      i < j => OriginBefore(hts[i], hts[j])

\* C14: the population is in generation order at every point of a run, and
\* so are the lists trimming and selection work on and return: sorted by
\* origin (end index, then start index) ascending.
C14_GenerationOrder ==
    /\ InGenerationOrder(hypothesis_trackers)
    /\ InGenerationOrder(n_hts)
    /\ InGenerationOrder(kept_hs)
    /\ InGenerationOrder(remaining_hts)
    /\ InGenerationOrder(n_remaining_hts)
    /\ InGenerationOrder(other_hs)
    /\ pc \in {"update", "trim_outer", "trim_inner"} =>
         /\ Len(n_hts) <= Len(hypothesis_trackers)
         /\ \A i \in 1 .. Len(n_hts) :
              n_hts[i].name =
                hypothesis_trackers[Len(hypothesis_trackers)
                                      - Len(n_hts) + i].name

C14_Witness ==
    /\ StepBoundary
    /\ Len(kept_hs) = 3
    /\ Len(hypothesis_trackers) = 2
    /\ Conf(hypothesis_trackers[1]) < Conf(hypothesis_trackers[2])
    /\ hypothesis_trackers[1].name = kept_hs[1].name
    /\ hypothesis_trackers[2].name = kept_hs[3].name

\* Number of kept trackers that selection ranks before the one at position
\* i: higher latest confidence, or the same and an earlier position.
RankInKept(i) ==
    Cardinality({l \in 1 .. Len(kept_hs) :
                   \/ Conf(kept_hs[l]) > Conf(kept_hs[i])
                   \/ Conf(kept_hs[l]) = Conf(kept_hs[i]) /\ l < i})

\* C15: selection retains exactly the first max_hypotheses kept trackers
\* in the order of latest confidence descending, ties by position in the
\* kept list ascending; of two kept trackers with equal confidence the
\* later is retained only if the earlier is.
C15_TiesByGenerationOrder ==
    StepBoundary =>
      /\ \A i \in 1 .. Len(kept_hs) :
           kept_hs[i].name \in Names(hypothesis_trackers)
             <=> RankInKept(i) < cfg.max_hypotheses
      /\ \A i \in 1 .. Len(kept_hs), j \in 1 .. Len(kept_hs) :
           (i < j /\ Conf(kept_hs[i]) = Conf(kept_hs[j])
              /\ kept_hs[j].name \in Names(hypothesis_trackers))
             => kept_hs[i].name \in Names(hypothesis_trackers)

C15_Witness ==
    /\ StepBoundary
    /\ \E i \in 1 .. Len(kept_hs), j \in 1 .. Len(kept_hs) :
         /\ i < j
         /\ Conf(kept_hs[i]) = Conf(kept_hs[j])
         /\ kept_hs[i].name \in Names(hypothesis_trackers)
         /\ kept_hs[j].name \in Names(other_hs)

\* Trimming of the current step has just returned (line 149).
TrimmingReturned == pc = "trim_outer" /\ remaining_hts = <<>>

\* sim_f was called on (a, b) in this step and did not exceed
\* 1 - similarity_epsilon.
ComparedNotExceeding(a, b) ==
    /\ SimOf(a, b) # {}
    /\ \A s \in SimOf(a, b) : s <= 2 - cfg.similarity_epsilon

\* sim_f was called on (a, b) in this step and exceeded
\* 1 - similarity_epsilon.
ComparedExceeding(a, b) ==
    /\ SimOf(a, b) # {}
    /\ \A s \in SimOf(a, b) : s > 2 - cfg.similarity_epsilon

\* The kept trackers placed after the first one and before population
\* position p.
LaterRepresentativesBefore(p) ==
    {r \in Range(kept_hs) :
       PositionOf(r.name) > 1 /\ PositionOf(r.name) < p}

\* C16 as stated: a tracker whose similarity to the first representative
\* does not exceed 1 - similarity_epsilon ends up in the kept list, whatever
\* its similarity to a later representative.
C16_Original ==
    TrimmingReturned =>
      \A p \in 2 .. Len(hypothesis_trackers) :
        ComparedNotExceeding(hypothesis_trackers[1], hypothesis_trackers[p])
          => hypothesis_trackers[p] \in Range(kept_hs)

\* C16 as amended: a tracker whose similarity to the first representative
\* does not exceed 1 - similarity_epsilon is compared in turn against the
\* later representatives that precede it; it is kept exactly when none of
\* these similarities exceeds 1 - similarity_epsilon, and otherwise it is
\* trimmed against the first of them that does.
C16_PassingFirstIsNotEnough ==
    TrimmingReturned =>
      \A p \in 2 .. Len(hypothesis_trackers) :
        LET t == hypothesis_trackers[p]
        IN  ComparedNotExceeding(hypothesis_trackers[1], t) =>
              /\ t \in Range(kept_hs) <=>
                   \A r \in LaterRepresentativesBefore(p) :
                     ComparedNotExceeding(r, t)
              /\ t \notin Range(kept_hs) =>
                   \E i \in 1 .. Len(trimmed_hs_data) :
                     LET r == trimmed_hs_data[i][2]
                     IN  /\ trimmed_hs_data[i][1] = t
                         /\ r \in LaterRepresentativesBefore(p)
                         /\ ComparedExceeding(r, t)
                         /\ \A q \in LaterRepresentativesBefore(
                                       PositionOf(r.name)) :
                              ComparedNotExceeding(q, t)

C16_Witness ==
    /\ TrimmingReturned
    /\ Len(hypothesis_trackers) = 3
    /\ Len(kept_hs) = 2
    /\ ComparedNotExceeding(hypothesis_trackers[1], hypothesis_trackers[3])
    /\ ComparedExceeding(hypothesis_trackers[2], hypothesis_trackers[3])
    /\ hypothesis_trackers[3] \notin Range(kept_hs)

\* The run has ended: the mapping was returned, or a fault of a supplied
\* function left __call__.
RunEnded == pc = "done" \/ pc = "faulted"

\* Trackers trimming has not classified yet.
Unclassified == Len(remaining_hts) + Len(n_remaining_hts)

\* C17: every run ends; the main loop makes one step per successful advance
\* of the cursor and returns at the first failed one, and each outer
\* iteration of the trimming loop takes at least one tracker out of the
\* unclassified ones, none ever coming back.
C17_RunTerminates ==
    /\ <>RunEnded
    /\ [][/\ (pc = "advance" /\ pc' = "generate") =>
               discovered_index' = discovered_index + 1
          /\ (pc = "advance" /\ ~CanAdvance) => pc' = "done"
          /\ (pc # "advance") => discovered_index' = discovered_index
          /\ (pc = "trim_outer" /\ pc' = "trim_inner") =>
               Unclassified' < Unclassified
          /\ (pc \in {"trim_outer", "trim_inner"}
                /\ pc' \in {"trim_outer", "trim_inner"}) =>
               Unclassified' <= Unclassified
          /\ RunEnded => UNCHANGED vars
       ]_vars

C17_Witness ==
    /\ pc = "done"
    /\ discovered_index = Len(onset_times) - 1
    /\ discovered_index = 4
    /\ Len(trimmed_hs_data) >= 1
    /\ Len(kept_hs) >= 2

\* C18: no origin is generated twice: each origin generated so far ends at
\* an index below the end index of the next generation, and the origins of
\* one generation are pairwise distinct; so the origins of a population are
\* pairwise distinct and the returned mapping holds every tracker of the
\* final population under its own origin.
C18_OriginsDistinct ==
    /\ Cardinality(Names(hypothesis_trackers)) = Len(hypothesis_trackers)
    /\ \A n \in GeneratedSoFar : n[2] <= GenEndIndex(discovered_index)
    /\ pc = "generate" =>
         \A n \in GeneratedSoFar : n[2] < GenEndIndex(discovered_index)
    /\ pc \in {"update", "trim_outer", "trim_inner"} =>
         /\ Cardinality(Names(n_hts)) = Len(n_hts)
         /\ \A n \in GeneratedSoFar :
              n[2] = GenEndIndex(discovered_index) <=> n \in Names(n_hts)
    /\ pc = "done" =>
         /\ Cardinality(DOMAIN result) = Len(hypothesis_trackers)
         /\ \A i \in 1 .. Len(hypothesis_trackers) :
              result[hypothesis_trackers[i].name] = hypothesis_trackers[i]

\* A returned mapping after a run that generated several origins with the
\* same end index and several with the same start index.
C18_Witness ==
    /\ pc = "done"
    /\ DOMAIN result # {}
    /\ \E a \in DOMAIN result, b \in removed : a[2] = b[2]
    /\ \E a \in DOMAIN result, b \in removed : a[1] = b[1]
    /\ Cardinality(GeneratedSoFar) >= 4

\* The trackers trimming recorded as redundant, in the order recorded.
TrimmedTrackers == [i \in 1 .. Len(trimmed_hs_data) |-> trimmed_hs_data[i][1]]

\* The kept trackers that precede population position p.
KeptBefore(p) ==
    {r \in Range(kept_hs) : PositionOf(r.name) < p}

\* The kept trackers before position p on which sim_f, called with the
\* tracker at p, returned more than 1 - similarity_epsilon.
ExceedingKeptBefore(p) ==
    {r \in KeptBefore(p) :
       \E s \in SimOf(r, hypothesis_trackers[p]) :
         s > 2 - cfg.similarity_epsilon}

\* C19: when trimming has returned, every tracker of its input is either
\* kept or in exactly one trimmed record, never both; the first input
\* tracker is kept; a tracker is trimmed iff sim_f of some earlier kept
\* tracker and it was strictly greater than 1 - similarity_epsilon (equal
\* does not trim), and its recorded representative is the earliest such
\* kept tracker.
C19_TrimmingPartitions ==
    TrimmingReturned =>
      /\ Names(kept_hs) \cup Names(TrimmedTrackers) = Names(hypothesis_trackers)
      /\ Names(kept_hs) \cap Names(TrimmedTrackers) = {}
      /\ Len(kept_hs) + Len(trimmed_hs_data) = Len(hypothesis_trackers)
      /\ Range(kept_hs) \cup Range(TrimmedTrackers) = Range(hypothesis_trackers)
      /\ hypothesis_trackers # <<>> => kept_hs[1] = hypothesis_trackers[1]
      /\ \A p \in 1 .. Len(hypothesis_trackers) :
           LET t == hypothesis_trackers[p]
           IN  /\ t \in Range(TrimmedTrackers) <=> ExceedingKeptBefore(p) # {}
               /\ \A i \in 1 .. Len(trimmed_hs_data) :
                    trimmed_hs_data[i][1] = t =>
                      LET r == trimmed_hs_data[i][2]
                      IN  /\ r \in ExceedingKeptBefore(p)
                          /\ \A q \in ExceedingKeptBefore(p) :
                               PositionOf(r.name) <= PositionOf(q.name)
                          /\ \A q \in KeptBefore(PositionOf(r.name)) :
                               ComparedNotExceeding(q, t)
               /\ t \in Range(kept_hs) =>
                    \A q \in KeptBefore(p) : ComparedNotExceeding(q, t)

\* Trimming returned with a tracker trimmed against a representative other
\* than the first, and a kept tracker whose similarity to an earlier kept
\* one was exactly the threshold.
C19_Witness ==
    /\ TrimmingReturned
    /\ \E i \in 1 .. Len(trimmed_hs_data) : trimmed_hs_data[i][2] # kept_hs[1]
    /\ \E i \in 1 .. Len(kept_hs), j \in 1 .. Len(kept_hs) :
         /\ i < j
         /\ 2 - cfg.similarity_epsilon \in SimOf(kept_hs[i], kept_hs[j])

\* The tracker whose update faulted.
FaultedTracker == hypothesis_trackers[upd_i]

\* A call of update on the tracker at position upd_i ends with a fault of
\* the named function.
UpdateFaults(f) == pc = "update" /\ pc' = "faulted" /\ fault' = f

\* C20: update is not rolled back. A fault of corr_f leaves the tracker as
\* it was: cur and both histories unchanged. A fault of eval_f leaves the
\* correction appended in that call and the new cur in place, with the
\* correction history one entry longer than the confidence history. Either
\* way the run ends there and no mapping is returned.
C20_NoRollback ==
    /\ [](pc = "faulted" =>
            /\ result = <<>>
            /\ fault = "corr_f" =>
                 /\ UpdatedInEveryStepTo(FaultedTracker, discovered_index - 1)
                 /\ CurIsLatestCorrection(FaultedTracker)
            /\ fault = "eval_f" =>
                 /\ Len(FaultedTracker.corr) = Len(FaultedTracker.confs) + 1
                 /\ Last(FaultedTracker.corr)[1] = discovered_index
                 /\ Cur(FaultedTracker) =
                      Last(FaultedTracker.corr)[2].new_hypothesis
                 /\ \A l \in 1 .. Len(FaultedTracker.confs) :
                      FaultedTracker.confs[l][1] < discovered_index)
    /\ [][/\ UpdateFaults("corr_f") =>
               hypothesis_trackers' = hypothesis_trackers
          /\ UpdateFaults("eval_f") =>
               /\ hypothesis_trackers' =
                    [hypothesis_trackers EXCEPT ![upd_i] =
                       [@ EXCEPT !.corr = Append(@, Last(FaultedTracker'.corr)),
                                 !.htuple = Cur(FaultedTracker')]]
               /\ Cur(FaultedTracker') = eval_seen'
          /\ pc = "faulted" => UNCHANGED vars
       ]_vars

\* eval_f faulted in a tracker's second or later update, whose correction
\* changed the current value.
C20_Witness ==
    /\ pc = "faulted"
    /\ fault = "eval_f"
    /\ Len(FaultedTracker.corr) >= 2
    /\ Cur(FaultedTracker) #
         FaultedTracker.corr[Len(FaultedTracker.corr) - 1][2].new_hypothesis

====
